---- MODULE Spec2Model ----
(***************************************************************************)
(* Model of server/local-tts.py: the XTTS v2 command-line wrapper.         *)
(*                                                                         *)
(* One process runs main() once.  The state is main's locals, the          *)
(* XTTSWrapper instance, the file system, the two output streams and the   *)
(* exit status.  The third-party engine (TTS(...) and tts_to_file) is      *)
(* opaque: each call either returns or raises, and tts_to_file may or may  *)
(* not have written the output file in either case.                        *)
(*                                                                         *)
(* Strings are TLA+ strings; f-strings are built with \o, str(int) with    *)
(* ToString.  Optional[str] values use the sentinel None.                  *)
(***************************************************************************)
EXTENDS Integers, Sequences, FiniteSets, TLC

\* ------------------------------------------------------------------ bounds

\* Largest file size (bytes) a file of the model may have.
MaxSize == 1

\* --------------------------------------------------------------- constants

\* Python's None, for Optional[str] values (never one of the input strings).
None == "<None>"

\* A name (result, wrapper) that has not been assigned yet.
Unbound == [unbound |-> TRUE]

\* No exception has been raised so far.
NotRaised == [where |-> "none", text |-> None]

\* generate: valid_languages (a list, in source order).
valid_languages ==
    << "en", "es", "fr", "de", "it", "pt", "pl", "tr", "ru",
       "nl", "cs", "ar", "zh-cn", "hu", "ko", "ja", "hi" >>

\* XTTSWrapper.__init__: the default pretrained model name.
DefaultModelName == "tts_models/multilingual/multi-dataset/xtts_v2"

\* ------------------------------------------------------------ input sets

Texts == {"Hello world", ""}
Speeds == {"1.0"}
SpeakerPaths == {"ref.wav", "missing.wav"}
OutputPaths == {"out.wav"}
LanguageInputs == {"en", "zh-cn", "xx"}
ModelDirFlags == {None, "", "/flag/models"}
CheckpointFlags == {None, "", "/flag/ckpt.pth"}
ConfigFlags == {None, "", "/flag/cfg.json"}
ModelDirEnvs == {None, "", "/env/models"}
CheckpointEnvs == {None, "", "/env/ckpt.pth"}
ConfigEnvs == {None, "", "/env/cfg.json"}

\* What the engine can raise (str(e) of the exception), None: it returns.
ConstructOutcomes == {None, "CUDA out of memory"}
SynthesisOutcomes == {None, "synthesis failed"}

\* File systems at process start: the reference sample may exist, the
\* output path may already hold a file.
InitialFileSystems ==
    { [p \in d |-> IF p = "ref.wav" THEN 1 ELSE s] :
        d \in SUBSET {"ref.wav", "out.wav"}, s \in 0..MaxSize }

\* ------------------------------------------------------- pure operations

\* Python truthiness of an Optional[str].
Truthy(v) == v # None /\ v # ""

\* Python's `a or b`.
PyOr(a, b) == IF Truthy(a) THEN a ELSE b

\* str in str.
Contains(s, sub) ==
    \E i \in 1..(Len(s) - Len(sub) + 1) : SubSeq(s, i, i + Len(sub) - 1) = sub

\* x in list.
InList(x, l) == \E i \in 1..Len(l) : l[i] = x

\* str(list of str): "['en', 'es', ...]".
RECURSIVE list_items(_, _)
list_items(l, i) ==
    IF i > Len(l) THEN ""
    ELSE (IF i > 1 THEN ", " ELSE "") \o "'" \o l[i] \o "'" \o list_items(l, i + 1)

list_str(l) == "[" \o list_items(l, 1) \o "]"

\* os.path.join(a, b) for a relative b.
os_path_join(a, b) ==
    IF a = "" THEN b
    ELSE IF SubSeq(a, Len(a), Len(a)) = "/" THEN a \o b
    ELSE a \o "/" \o b

\* Mutant of os_path_exists: the existence check always passes.
os_path_exists_always(f, p) == TRUE

\* os.path.exists(p) on file system f.
os_path_exists(f, p) == p \in DOMAIN f

\* str(e) of the OSError os.path.getsize raises for a missing file.
getsize_error(p) == "[Errno 2] No such file or directory: '" \o p \o "'"

\* Mutant of os_path_getsize: a missing file reads as size 0 instead of raising.
os_path_getsize_lenient(f, p) ==
    IF p \in DOMAIN f THEN [ok |-> TRUE, size |-> f[p]]
    ELSE [ok |-> TRUE, size |-> 0]

\* os.path.getsize(p) on file system f: the size, or the OSError it raises.
os_path_getsize(f, p) ==
    IF p \in DOMAIN f THEN [ok |-> TRUE, size |-> f[p]]
    ELSE [ok |-> FALSE, error |-> getsize_error(p)]

\* The file system after a file of size s has been written at p.
write_file(f, p, s) == [q \in DOMAIN f \cup {p} |-> IF q = p THEN s ELSE f[q]]

\* main: `flag or os.environ.get(NAME)`.
config_from_env(flag, envval) == PyOr(flag, envval)

\* Mutant of XTTSWrapper_init: `or` for `and` in the first test.
XTTSWrapper_init_either(m_dir, checkpoint_path, config_path, use_gpu) ==
    IF Truthy(checkpoint_path) \/ Truthy(config_path)
    THEN [model_path |-> checkpoint_path, config_path |-> config_path, gpu |-> use_gpu]
    ELSE IF Truthy(m_dir)
    THEN [model_path |-> os_path_join(m_dir, "model.pth"),
          config_path |-> os_path_join(m_dir, "config.json"),
          gpu |-> use_gpu]
    ELSE [model_name |-> DefaultModelName, gpu |-> use_gpu]

\* XTTSWrapper.__init__: the keyword arguments TTS(...) is constructed with.
XTTSWrapper_init(m_dir, checkpoint_path, config_path, use_gpu) ==
    IF Truthy(checkpoint_path) /\ Truthy(config_path)
    THEN [model_path |-> checkpoint_path, config_path |-> config_path, gpu |-> use_gpu]
    ELSE IF Truthy(m_dir)
    THEN [model_path |-> os_path_join(m_dir, "model.pth"),
          config_path |-> os_path_join(m_dir, "config.json"),
          gpu |-> use_gpu]
    ELSE [model_name |-> DefaultModelName, gpu |-> use_gpu]

\* generate: the dicts it returns.
speaker_not_found(speaker_wav) ==
    [success |-> FALSE, error |-> "Speaker wav file not found: " \o speaker_wav]

invalid_language(language) ==
    [success |-> FALSE,
     error |-> "Invalid language: " \o language \o ". Must be one of "
               \o list_str(valid_languages)]

generate_success(text, speaker_wav, language, speed, output_path, size) ==
    [success |-> TRUE, output_path |-> output_path, file_size |-> size,
     text |-> text, speaker_wav |-> speaker_wav, language |-> language,
     speed |-> speed]

generate_except(e) == [success |-> FALSE, error |-> e]

\* Mutant of language_valid: any two-letter code is accepted.
language_valid_two_letters(language) == Len(language) = 2

\* generate: `language not in valid_languages` is false.
language_valid(language) == InList(language, valid_languages)

\* ------------------------------------------------------------------ state

VARIABLES
    args,          \* argparse namespace (line 139)
    env,           \* os.environ: the three XTTS_* variables main reads
    fs,            \* file system: path -> size of the files that exist
    pc,            \* position of the process in main / generate
    model_dir,     \* main's local (line 142)
    checkpoint,    \* main's local (line 143)
    config,        \* main's local (line 144)
    wrapper,       \* main's local: the XTTSWrapper instance, or Unbound
    result,        \* main's local: the dict generate returned, or Unbound
    exc,           \* str(e) of the exception propagating to main's handler
    stdout,        \* what was printed to standard output, in order
    stderr,        \* what was printed to standard error, in order
    exit_status,   \* << >> while running, <<n>> once the process has exited
    n_construct,   \* history: calls of XTTSWrapper(...)
    n_generate,    \* history: calls of wrapper.generate
    n_tts,         \* history: calls of self.tts.tts_to_file
    written,       \* history: tts_to_file wrote the output file
    raised,        \* history: where an exception was raised, and its str(e)
    reported_by,   \* history: which part of main printed the outcome
    n_report       \* history: outcomes printed

vars == << args, env, fs, pc, model_dir, checkpoint, config, wrapper, result,
           exc, stdout, stderr, exit_status, n_construct, n_generate, n_tts,
           written, raised, reported_by, n_report >>

locals == << model_dir, checkpoint, config >>
streams == << stdout, stderr, exit_status, reported_by, n_report >>
inputs == << args, env >>

\* The state after parser.parse_args() returned (line 139).
Init ==
    /\ args \in [text : Texts, speaker_wav : SpeakerPaths, language : LanguageInputs,
                 speed : Speeds, output : OutputPaths, model_dir : ModelDirFlags,
                 checkpoint : CheckpointFlags, config : ConfigFlags,
                 no_gpu : BOOLEAN, json : BOOLEAN]
    /\ env \in [XTTS_MODEL_DIR : ModelDirEnvs, XTTS_CHECKPOINT_PATH : CheckpointEnvs,
                XTTS_CONFIG_PATH : ConfigEnvs]
    /\ fs \in InitialFileSystems
    /\ pc = "main"
    /\ model_dir = None /\ checkpoint = None /\ config = None
    /\ wrapper = Unbound /\ result = Unbound /\ exc = None
    /\ stdout = << >> /\ stderr = << >> /\ exit_status = << >>
    /\ n_construct = 0 /\ n_generate = 0 /\ n_tts = 0
    /\ written = FALSE /\ raised = NotRaised /\ reported_by = "none"
    /\ n_report = 0

\* ---------------------------------------------------------------- actions

\* main, lines 141-144: configuration from flags, else from the environment.
ResolveConfig ==
    /\ pc = "main"
    /\ model_dir' = config_from_env(args.model_dir, env.XTTS_MODEL_DIR)
    /\ checkpoint' = config_from_env(args.checkpoint, env.XTTS_CHECKPOINT_PATH)
    /\ config' = config_from_env(args.config, env.XTTS_CONFIG_PATH)
    /\ pc' = "construct"
    /\ UNCHANGED << inputs, fs, wrapper, result, exc, streams, n_construct,
                    n_generate, n_tts, written, raised >>

\* Mutant of construct_raise: the exception is swallowed and main goes on.
construct_raise_swallowed(e) == [pc |-> "generate", exc |-> None]

\* Where control goes when XTTSWrapper(...) raises e: main's except clause.
construct_raise(e) == [pc |-> "except_main", exc |-> e]

\* main, lines 148-153 with XTTSWrapper.__init__: the engine is constructed
\* and either returns or raises.
Construct ==
    /\ pc = "construct"
    /\ n_construct' = n_construct + 1
    /\ \E e \in ConstructOutcomes :
         IF e = None
         THEN /\ wrapper' = [model_dir |-> model_dir, checkpoint_path |-> checkpoint,
                             config_path |-> config,
                             tts |-> XTTSWrapper_init(model_dir, checkpoint, config,
                                                      ~args.no_gpu)]
              /\ pc' = "generate"
              /\ UNCHANGED << exc, raised >>
         ELSE /\ pc' = construct_raise(e).pc
              /\ exc' = construct_raise(e).exc
              /\ raised' = [where |-> "construct", text |-> e]
              /\ UNCHANGED wrapper
    /\ UNCHANGED << inputs, fs, locals, result, streams, n_generate, n_tts, written >>

\* Mutant of generate_catch: generate has no except clause, e reaches main.
generate_catch_propagate(e) == [pc |-> "except_main", result |-> Unbound, exc |-> e]

\* generate, lines 119-123: its except clause returns a Failure dict.
generate_catch(e) == [pc |-> "report", result |-> generate_except(e), exc |-> None]

\* main line 156 and generate lines 78-83: the call, and the speaker check.
GenerateSpeaker ==
    /\ pc = "generate"
    /\ n_generate' = n_generate + 1
    /\ IF ~os_path_exists(fs, args.speaker_wav)
       THEN /\ result' = speaker_not_found(args.speaker_wav)
            /\ pc' = "report"
       ELSE /\ pc' = "gen_language"
            /\ UNCHANGED result
    /\ UNCHANGED << inputs, fs, locals, wrapper, exc, streams, n_construct, n_tts,
                    written, raised >>

\* generate, lines 85-94: the language check.
GenerateLanguage ==
    /\ pc = "gen_language"
    /\ IF ~language_valid(args.language)
       THEN /\ result' = invalid_language(args.language)
            /\ pc' = "report"
       ELSE /\ pc' = "gen_tts"
            /\ UNCHANGED result
    /\ UNCHANGED << inputs, fs, locals, wrapper, exc, streams, n_construct,
                    n_generate, n_tts, written, raised >>

\* generate, lines 96-104: self.tts.tts_to_file.  The engine returns or
\* raises, having written the output file (of some size) or not.
GenerateSynthesize ==
    /\ pc = "gen_tts"
    /\ n_tts' = n_tts + 1
    /\ \E e \in SynthesisOutcomes, w \in BOOLEAN, s \in 0..MaxSize :
         /\ written' = w
         /\ fs' = IF w THEN write_file(fs, args.output, s) ELSE fs
         /\ IF e = None
            THEN /\ pc' = "gen_getsize"
                 /\ UNCHANGED << result, exc, raised >>
            ELSE /\ pc' = generate_catch(e).pc
                 /\ result' = generate_catch(e).result
                 /\ exc' = generate_catch(e).exc
                 /\ raised' = [where |-> "tts", text |-> e]
    /\ UNCHANGED << inputs, locals, wrapper, streams, n_construct, n_generate >>

\* Mutant of GenerateGetSize: the size is read outside generate's try block,
\* so its OSError reaches main's handler.
GenerateGetSize_outside_try ==
    /\ pc = "gen_getsize"
    /\ LET r == os_path_getsize(fs, args.output) IN
         IF r.ok
         THEN /\ result' = generate_success(args.text, args.speaker_wav, args.language,
                                            args.speed, args.output, r.size)
              /\ pc' = "report"
              /\ UNCHANGED << exc, raised >>
         ELSE /\ pc' = "except_main"
              /\ exc' = r.error
              /\ raised' = [where |-> "getsize", text |-> r.error]
              /\ UNCHANGED result
    /\ UNCHANGED << inputs, fs, locals, wrapper, streams, n_construct, n_generate,
                    n_tts, written >>

\* generate, lines 106-117: the size of the output file is read and the
\* Success dict returned; an OSError goes to generate's except clause.
GenerateGetSize ==
    /\ pc = "gen_getsize"
    /\ LET r == os_path_getsize(fs, args.output) IN
         IF r.ok
         THEN /\ result' = generate_success(args.text, args.speaker_wav, args.language,
                                            args.speed, args.output, r.size)
              /\ pc' = "report"
              /\ UNCHANGED << exc, raised >>
         ELSE /\ pc' = generate_catch(r.error).pc
              /\ result' = generate_catch(r.error).result
              /\ exc' = generate_catch(r.error).exc
              /\ raised' = [where |-> "getsize", text |-> r.error]
    /\ UNCHANGED << inputs, fs, locals, wrapper, streams, n_construct, n_generate,
                    n_tts, written >>

\* main, line 168: the text-mode success line (the module is ASCII: the
\* leading marker character of the three text-mode lines is left out).
generated_line(r) ==
    "Generated: " \o r.output_path \o " (" \o ToString(r.file_size) \o " bytes)"

\* main, lines 164-171: what each stream and the exit status become once the
\* result of generate is reported (main then returns: exit status 0, unless
\* sys.exit(1) was called).
report_result(json, r, out, err) ==
    IF json
    THEN [stdout |-> Append(out, [json |-> r]), stderr |-> err, exit_status |-> <<0>>]
    ELSE IF r.success
    THEN [stdout |-> Append(out, [line |-> generated_line(r)]), stderr |-> err,
          exit_status |-> <<0>>]
    ELSE [stdout |-> out, stderr |-> Append(err, [line |-> "Error: " \o r.error]),
          exit_status |-> <<1>>]

\* main, lines 164-171.
Report ==
    /\ pc = "report"
    /\ LET o == report_result(args.json, result, stdout, stderr) IN
         /\ stdout' = o.stdout
         /\ stderr' = o.stderr
         /\ exit_status' = o.exit_status
    /\ reported_by' = "result"
    /\ n_report' = n_report + 1
    /\ pc' = "done"
    /\ UNCHANGED << inputs, fs, locals, wrapper, result, exc, n_construct,
                    n_generate, n_tts, written, raised >>

\* Mutant of report_fatal: the handler ignores --json.
report_fatal_stderr(json, e, out, err) ==
    [stdout |-> out, stderr |-> Append(err, [line |-> "Fatal error: " \o e]),
     exit_status |-> <<1>>]

\* main, lines 173-178: what the top-level handler prints, and exit status 1.
report_fatal(json, e, out, err) ==
    IF json
    THEN [stdout |-> Append(out, [json |-> [success |-> FALSE, error |-> e]]),
          stderr |-> err, exit_status |-> <<1>>]
    ELSE [stdout |-> out, stderr |-> Append(err, [line |-> "Fatal error: " \o e]),
          exit_status |-> <<1>>]

\* main, lines 173-178.
Fatal ==
    /\ pc = "except_main"
    /\ LET o == report_fatal(args.json, exc, stdout, stderr) IN
         /\ stdout' = o.stdout
         /\ stderr' = o.stderr
         /\ exit_status' = o.exit_status
    /\ reported_by' = "fatal"
    /\ n_report' = n_report + 1
    /\ pc' = "done"
    /\ UNCHANGED << inputs, fs, locals, wrapper, result, exc, n_construct,
                    n_generate, n_tts, written, raised >>

Next ==
    \/ ResolveConfig
    \/ Construct
    \/ GenerateSpeaker
    \/ GenerateLanguage
    \/ GenerateSynthesize
    \/ GenerateGetSize
    \/ Report
    \/ Fatal

Spec == Init /\ [][Next]_vars

\* The process is single-threaded and every call blocks until it completes:
\* a step that can be taken is taken.
FairSpec == Spec /\ WF_vars(Next)

\* ------------------------------------------------------------- properties

\* The 17 allowed language codes, as a set.
AllowedLanguages ==
    { "en", "es", "fr", "de", "it", "pt", "pl", "tr", "ru", "nl", "cs", "ar",
      "zh-cn", "hu", "ko", "ja", "hi" }

\* The keys of the two JSON objects.
SuccessKeys ==
    { "success", "output_path", "file_size", "text", "speaker_wav", "language", "speed" }
FailureKeys == { "success", "error" }

Returned == result # Unbound
IsSuccess(r) == r # Unbound /\ r.success
IsFailure(r) == r # Unbound /\ ~r.success
Exited == pc = "done"

\* A value counts as supplied when it is a non-empty string.
Supplied(v) == v # None /\ v # ""

\* C1 (as claimed; refuted by the code): once the process has exited, its
\* exit status is 0 exactly when generate returned a Success result, and 1
\* after every failure, in JSON mode and in text mode alike.
C1_ExitStatusIffSuccess ==
    Exited =>
        /\ (exit_status = <<0>>) <=> IsSuccess(result)
        /\ ~IsSuccess(result) => exit_status = <<1>>

\* C2 (as claimed; refuted): whenever generate has returned for a language
\* code outside the allowed set, the result is a Failure whose message names
\* that code, tts_to_file was never called and no output file was written.
C2_InvalidLanguageNamesCode ==
    (Returned /\ args.language \notin AllowedLanguages) =>
        /\ IsFailure(result)
        /\ Contains(result.error, args.language)
        /\ n_tts = 0
        /\ ~written

\* C2 (amended): whenever generate has returned for a language code outside
\* the allowed set, the result is a Failure, tts_to_file was never called and
\* no output file was written; the message names the offending code when the
\* speaker file exists, and names the speaker path when it does not.
C2_InvalidLanguageRejected ==
    (Returned /\ args.language \notin AllowedLanguages) =>
        /\ IsFailure(result)
        /\ n_tts = 0
        /\ ~written
        /\ args.speaker_wav \in DOMAIN fs =>
              result.error = "Invalid language: " \o args.language
                             \o ". Must be one of ['en', 'es', 'fr', 'de', 'it', 'pt', "
                             \o "'pl', 'tr', 'ru', 'nl', 'cs', 'ar', 'zh-cn', 'hu', 'ko', "
                             \o "'ja', 'hi']"
        /\ args.speaker_wav \notin DOMAIN fs =>
              Contains(result.error, args.speaker_wav)

\* C2 witness: the process has exited after generate rejected the code "xx"
\* with the speaker file present, and the message names "xx".
C2_Witness ==
    /\ Exited /\ n_generate = 1
    /\ args.language = "xx"
    /\ args.speaker_wav \in DOMAIN fs
    /\ IsFailure(result) /\ Contains(result.error, "xx")

\* C3: whenever generate has been called with a speaker path that does not
\* exist, whatever the language code, the result is a Failure whose message
\* is the speaker message with that exact path, tts_to_file was never called
\* and no output file was written.
C3_MissingSpeakerRejected ==
    (n_generate > 0 /\ args.speaker_wav \notin DOMAIN fs) =>
        /\ IsFailure(result)
        /\ result.error = "Speaker wav file not found: " \o args.speaker_wav
        /\ Contains(result.error, args.speaker_wav)
        /\ n_tts = 0
        /\ ~written

\* C3 witness: generate returned the speaker Failure although the language
\* code was invalid too.
C3_Witness ==
    /\ Exited /\ n_generate = 1
    /\ args.speaker_wav \notin DOMAIN fs
    /\ args.language \notin AllowedLanguages
    /\ IsFailure(result) /\ Contains(result.error, "missing.wav")

\* C4: in JSON mode standard output never holds more than one item, every
\* item is a JSON object with the Success keys or the Failure keys, and the
\* process has exited exactly when one object has been printed.
C4_OneJsonObject ==
    args.json =>
        /\ Len(stdout) <= 1
        /\ \A i \in 1..Len(stdout) :
              /\ DOMAIN stdout[i] = {"json"}
              /\ IF stdout[i].json.success
                 THEN DOMAIN stdout[i].json = SuccessKeys
                 ELSE DOMAIN stdout[i].json = FailureKeys
        /\ Exited <=> Len(stdout) = 1

\* C4 witness: a JSON-mode run that ended in the top-level handler after the
\* engine could not be constructed, with its one Failure object printed.
C4_Witness ==
    /\ Exited /\ args.json
    /\ reported_by = "fatal"
    /\ stdout = << [json |-> [success |-> FALSE, error |-> "CUDA out of memory"]] >>

\* C5: once the wrapper is constructed, the engine was built from the explicit
\* checkpoint and config paths if and only if both are supplied (whatever the
\* model directory); otherwise from <dir>/model.pth and <dir>/config.json if
\* a model directory is supplied; otherwise from the default model name.
C5_ModelSource ==
    wrapper # Unbound =>
        LET t == wrapper.tts
            ck == wrapper.checkpoint_path
            cf == wrapper.config_path
            dir == wrapper.model_dir
            explicit == /\ DOMAIN t = {"model_path", "config_path", "gpu"}
                        /\ t.model_path = ck /\ t.config_path = cf
            directory == /\ DOMAIN t = {"model_path", "config_path", "gpu"}
                         /\ t.model_path = dir \o "/model.pth"
                         /\ t.config_path = dir \o "/config.json"
            default == /\ DOMAIN t = {"model_name", "gpu"}
                       /\ t.model_name = "tts_models/multilingual/multi-dataset/xtts_v2"
        IN  /\ ck = checkpoint /\ cf = config /\ dir = model_dir
            /\ explicit <=> (Supplied(ck) /\ Supplied(cf))
            /\ directory <=> (~(Supplied(ck) /\ Supplied(cf)) /\ Supplied(dir))
            /\ default <=> (~(Supplied(ck) /\ Supplied(cf)) /\ ~Supplied(dir))
            /\ t.gpu = ~args.no_gpu

\* C5 witness: checkpoint, config and model directory are all supplied and
\* the engine was built from the checkpoint and config paths.
C5_Witness ==
    /\ wrapper # Unbound
    /\ Supplied(wrapper.checkpoint_path) /\ Supplied(wrapper.config_path)
    /\ Supplied(wrapper.model_dir)
    /\ wrapper.tts.model_path = wrapper.checkpoint_path
    /\ wrapper.tts.config_path = wrapper.config_path

\* C6: after tts_to_file raised, generate has returned the Failure carrying
\* the exception's text, nothing propagates to main's handler and the outcome
\* is reported from the result; after the engine's construction raised, there
\* is no generate result and the outcome is reported by main's handler.
C6_SynthesisCaughtConstructionFatal ==
    /\ raised.where = "tts" =>
          /\ result = [success |-> FALSE, error |-> raised.text]
          /\ exc = None
          /\ pc \in {"report", "done"}
          /\ reported_by # "fatal"
          /\ Exited => reported_by = "result"
    /\ raised.where = "construct" =>
          /\ result = Unbound
          /\ n_generate = 0
          /\ exc = raised.text
          /\ pc \in {"except_main", "done"}
          /\ reported_by # "result"
          /\ Exited => reported_by = "fatal"

\* C6 witness: a text-mode run in which tts_to_file raised and main printed
\* the request-level error line.
C6_Witness ==
    /\ Exited /\ ~args.json
    /\ raised.where = "tts"
    /\ reported_by = "result"
    /\ stderr = << [line |-> "Error: synthesis failed"] >>

\* C7: a Success result exists only when both validations passed, tts_to_file
\* was called and returned, and the output file exists with the size the
\* result reports.
C7_SuccessOnlyAfterSizeRead ==
    IsSuccess(result) =>
        /\ args.speaker_wav \in DOMAIN fs
        /\ args.language \in AllowedLanguages
        /\ n_tts = 1
        /\ raised.where = "none"
        /\ args.output \in DOMAIN fs
        /\ result.output_path = args.output
        /\ result.file_size = fs[args.output]

\* C7 witness: a Success result after the engine wrote the output file.
C7_Witness ==
    /\ IsSuccess(result) /\ written /\ n_tts = 1
    /\ result.file_size = fs["out.wav"]

\* C8 (as claimed; refuted): when tts_to_file returned and reading the size
\* of the missing output file failed, generate returns no Failure result and
\* the outcome is reported by main's top-level handler.
C8_SizeFailureIsFatal ==
    raised.where = "getsize" =>
        /\ ~IsFailure(result)
        /\ Exited => reported_by = "fatal"

\* C8 (amended): when tts_to_file returned and reading the size of the
\* missing output file failed, generate returns a Failure result carrying the
\* filesystem error's text, and main reports it from the result, never
\* through its top-level handler.
C8_SizeFailureIsRequestFailure ==
    raised.where = "getsize" =>
        /\ n_tts = 1 /\ ~written
        /\ args.output \notin DOMAIN fs
        /\ result = [success |-> FALSE, error |-> raised.text]
        /\ Contains(result.error, args.output)
        /\ exc = None
        /\ pc \in {"report", "done"}
        /\ Exited => reported_by = "result"

\* C8 witness: a run that exited after the size read failed, reported from
\* the result.
C8_Witness ==
    /\ Exited
    /\ raised.where = "getsize"
    /\ IsFailure(result)
    /\ reported_by = "result"

\* C9 (as claimed; refuted by the code): once the configuration is resolved,
\* each of model directory, checkpoint and config is the flag's value whenever
\* the flag is present (an empty value included), and the environment
\* variable's value only when the flag is absent.
C9_FlagWinsWheneverPresent ==
    pc # "main" =>
        /\ model_dir = (IF args.model_dir # None THEN args.model_dir
                        ELSE env.XTTS_MODEL_DIR)
        /\ checkpoint = (IF args.checkpoint # None THEN args.checkpoint
                         ELSE env.XTTS_CHECKPOINT_PATH)
        /\ config = (IF args.config # None THEN args.config
                     ELSE env.XTTS_CONFIG_PATH)

\* Position of the process along the one path through main.
Rank(p) ==
    CASE p = "main" -> 0
      [] p = "construct" -> 1
      [] p = "generate" -> 2
      [] p = "gen_language" -> 3
      [] p = "gen_tts" -> 4
      [] p = "gen_getsize" -> 5
      [] p = "report" -> 6
      [] p = "except_main" -> 6
      [] p = "done" -> 7

C10_Linear ==
    /\ n_construct <= 1 /\ n_generate <= 1 /\ n_tts <= 1 /\ n_report <= 1
    /\ n_construct = 0 => (n_generate = 0 /\ result = Unbound /\ wrapper = Unbound)
    /\ n_generate > 0 => (wrapper # Unbound /\ raised.where # "construct")
    /\ n_tts > 0 =>
          /\ n_generate = 1
          /\ args.speaker_wav \in DOMAIN fs
          /\ args.language \in AllowedLanguages
    /\ Exited => (n_construct = 1 /\ n_report = 1 /\ exit_status # << >>)
    /\ ~Exited => (n_report = 0 /\ exit_status = << >> /\ ENABLED Next)

\* C10: every run is one linear cycle that terminates: the engine is
\* constructed once and before generate, generate is called at most once and
\* only with a constructed wrapper, tts_to_file at most once and only after
\* both validations passed, exactly one outcome is reported by the time the
\* process exits, every step moves strictly forward (nothing is retried),
\* and the process eventually exits.
C10_OneLinearCycle ==
    /\ []C10_Linear
    /\ [][Rank(pc') > Rank(pc)]_vars
    /\ <>Exited

\* C10 witness: a run that exited after one construction, one generate call,
\* one synthesis call and one report.
C10_Witness ==
    /\ Exited
    /\ n_construct = 1 /\ n_generate = 1 /\ n_tts = 1 /\ n_report = 1

====
